---- MODULE Spec2Model ----
(***************************************************************************)
(* archivetube: the catalog synchronisation pass (main and reIndex of      *)
(* archivetube.py) over the aggregated store tube.db.                      *)
(*                                                                         *)
(* The store is modelled by its tables.  `disk' is the committed content   *)
(* of the file tube.db, `db' is what the connection dbCon of the running   *)
(* process sees (its open transaction included).  One invocation of main   *)
(* is one run; runs follow each other, the file system changes between     *)
(* them.                                                                   *)
(***************************************************************************)
EXTENDS Integers, Sequences, FiniteSets, TLC

\* ------------------------------------------------------------------ bounds
MaxRuns == 2          \* invocations of main in one behaviour
MaxArchives == 2      \* rows of the archives table

\* ------------------------------------------------------- program constants
DbVersion == 4        \* __dbversion__
ArchiveDbVersion == 5 \* __archivedbversion__
LegacyVersion == 1    \* reIndex: the version of a source whose version cannot be read
Unreadable == 0       \* a source's channel table has no dbversion to read

NULL == "NULL"        \* SQL NULL / Python None in a text column
DirPath == "/srv"     \* the working directory DIR (absolute, normalised)
SourceDirs == {"a", "b"}   \* the subdirectories of DIR

\* --------------------------------------------------------- source archives
\* One row of a source's videos table (youtubeID, title, filename).
Video(id, title) == [id |-> id, title |-> title, filename |-> id \o ".mp4"]

\* A directory of DIR: whether it holds archive.db, and what the channel
\* and videos tables of that archive.db hold.
NoSource == [marker |-> FALSE, version |-> ArchiveDbVersion, name |-> NULL, videos |-> << >>]
SrcOne == [marker |-> TRUE, version |-> ArchiveDbVersion, name |-> "n1",
           videos |-> << Video("v1", "t1") >>]
SrcGrown == [marker |-> TRUE, version |-> ArchiveDbVersion, name |-> "n2",
             videos |-> << Video("v1", "t2"), Video("v2", "t1"), Video("v3", "t1") >>]
SrcNoName == [marker |-> TRUE, version |-> ArchiveDbVersion, name |-> NULL,
              videos |-> << Video("v1", "t1") >>]
SrcNoTitle == [marker |-> TRUE, version |-> ArchiveDbVersion, name |-> "n1",
               videos |-> << Video("v2", "t1"), Video("v1", NULL) >>]
SrcOld == [marker |-> TRUE, version |-> ArchiveDbVersion - 1, name |-> "n1",
           videos |-> << Video("v1", "t1") >>]

SrcNoVersion == [marker |-> TRUE, version |-> Unreadable, name |-> "n1",
                 videos |-> << Video("v1", "t1") >>]

SnapshotsA == {NoSource, SrcOne, SrcGrown, SrcNoName, SrcNoTitle, SrcOld, SrcNoVersion}
SnapshotsB == {NoSource, SrcOne}
FileSystems == {f \in [SourceDirs -> SnapshotsA] : f["b"] \in SnapshotsB}
EmptyFS == [d \in SourceDirs |-> NoSource]

\* ------------------------------------------------------------------ paths
\* os.path.normpath(os.path.abspath(os.path.join(dirpath, relpath)))
AbsPath(relpath) == IF relpath = "." THEN DirPath ELSE DirPath \o "/" \o relpath

JoinPathBare(abspath, filename) == filename

\* os.path.join(abspath, filename)
JoinPath(abspath, filename) == abspath \o "/" \o filename

\* The directories that can exist under DIR and, for each, the names
\* os.listdir gives for it, in the file system's listing order.
Dirs == {".", "a", "b", "a/c"}
Children(relpath) ==
    IF relpath = "." THEN << "a", "b" >>
    ELSE IF relpath = "a" THEN << "a/c" >>
    ELSE << >>

\* DIR itself exists (it holds tube.db); a directory under it exists when
\* the file system has it.
DirExists(f, relpath) == relpath = "." \/ relpath \in DOMAIN f

SubDirsDeep(f, relpath) ==
    SelectSeq(<< "a", "a/c", "b" >>,
              LAMBDA name : DirExists(f, name) /\ (relpath = "." \/ name = "a/c"))

\* [name for name in os.listdir(abspath) if os.path.isdir(...)], as paths
\* relative to DIR.
SubDirs(f, relpath) == SelectSeq(Children(relpath), LAMBDA name : DirExists(f, name))

\* reIndex: SELECT dbversion FROM channel ..., version = 1 when that raises
ReadVersion(src) == IF src.version = Unreadable THEN LegacyVersion ELSE src.version

\* os.path.isfile(os.path.join(dir, "archive.db"))
HasMarker(f, relpath) == relpath \in DOMAIN f /\ f[relpath].marker

\* ------------------------------------------------------ the aggregated store
Info(lastupdate, channels, videos, dbversion) ==
    [lastupdate |-> lastupdate, channels |-> channels, videos |-> videos, dbversion |-> dbversion]

\* The store as createDB leaves it.
createDB ==
    [exists |-> TRUE, archives |-> << >>, channels |-> << >>, videos |-> << >>,
     info |-> Info(0, 0, 0, DbVersion), stats |-> 0]

\* No file tube.db.
NoFile ==
    [exists |-> FALSE, archives |-> << >>, channels |-> << >>, videos |-> << >>,
     info |-> Info(0, 0, 0, 0), stats |-> 0]

\* The command line: -m, and -f FOLDER [-r].
AddOptions ==
    {[add |-> FALSE, relpath |-> ".", recursive |-> FALSE],
     [add |-> TRUE, relpath |-> "a", recursive |-> FALSE],
     [add |-> TRUE, relpath |-> ".", recursive |-> TRUE]}

\* Source discovery of reIndex: the candidates of one archives row ...
CandidatesOf(f, item) ==
    IF item.recursive
    THEN SelectSeq(SubDirs(f, item.relpath), LAMBDA sub : HasMarker(f, sub))
    ELSE IF HasMarker(f, item.relpath) THEN << item.relpath >> ELSE << >>

\* ... and of the whole table, in table order.
RECURSIVE Discovery(_, _)
Discovery(f, rows) ==
    IF rows = << >> THEN << >>
    ELSE CandidatesOf(f, Head(rows)) \o Discovery(f, Tail(rows))

\* os.listdir(abspath) raises FileNotFoundError for a recursive row whose
\* directory does not exist.
DiscoveryRaises(f, rows) ==
    \E i \in DOMAIN rows : rows[i].recursive /\ ~DirExists(f, rows[i].relpath)

\* ---------------------------------------------------------- channel writes
ChannelRow(id, relpath, abspath, name, active) ==
    [id |-> id, relpath |-> relpath, abspath |-> abspath, name |-> name, active |-> active]

InsertChannelFailsNoUnique(s, relpath, abspath, name) == name = NULL

\* INSERT INTO channels raises sqlite3.IntegrityError:
\* name NOT NULL, relpath UNIQUE, abspath UNIQUE.
InsertChannelFails(s, relpath, abspath, name) ==
    \/ name = NULL
    \/ \E i \in DOMAIN s.channels : s.channels[i].relpath = relpath
    \/ \E i \in DOMAIN s.channels : s.channels[i].abspath = abspath

\* INSERT INTO channels(...) VALUES(..., 1); id is AUTOINCREMENT and no row
\* is ever deleted.
InsertChannel(s, relpath, abspath, name) ==
    [s EXCEPT !.channels =
        Append(s.channels, ChannelRow(Len(s.channels) + 1, relpath, abspath, name, 1))]

\* UPDATE channels ... WHERE relpath = ? raises only when a row matches.
UpdateChannelFails(s, relpath, abspath, name) ==
    /\ \E i \in DOMAIN s.channels : s.channels[i].relpath = relpath
    /\ \/ name = NULL
       \/ \E j \in DOMAIN s.channels :
             s.channels[j].relpath # relpath /\ s.channels[j].abspath = abspath

UpdateChannelKeepInactive(s, relpath, abspath, name) ==
    [s EXCEPT !.channels =
        [i \in DOMAIN s.channels |->
            IF s.channels[i].relpath = relpath
            THEN [s.channels[i] EXCEPT !.abspath = abspath, !.name = name]
            ELSE s.channels[i]]]

\* UPDATE channels SET abspath=?,name=?,...,active=1 WHERE relpath = ?
UpdateChannel(s, relpath, abspath, name) ==
    [s EXCEPT !.channels =
        [i \in DOMAIN s.channels |->
            IF s.channels[i].relpath = relpath
            THEN [s.channels[i] EXCEPT !.abspath = abspath, !.name = name, !.active = 1]
            ELSE s.channels[i]]]

SelectChannelIdFresh(s, relpath) == Len(s.channels) + 1

\* SELECT id FROM channels WHERE relpath = ? ... fetchone(); 0 stands for
\* None (no row).
SelectChannelId(s, relpath) ==
    LET hits == {i \in DOMAIN s.channels : s.channels[i].relpath = relpath}
    IN  IF hits = {} THEN 0
        ELSE s.channels[CHOOSE i \in hits : \A j \in hits : i <= j].id

\* ------------------------------------------------------------ video writes
VideoRow(id, channelID, title, filepath, active) ==
    [id |-> id, channelID |-> channelID, title |-> title, filepath |-> filepath, active |-> active]

InsertVideoFailsNoKey(s, id, title) == title = NULL

\* INSERT INTO videos raises: title NOT NULL, id PRIMARY KEY UNIQUE.
InsertVideoFails(s, id, title) ==
    \/ title = NULL
    \/ \E i \in DOMAIN s.videos : s.videos[i].id = id

InsertVideo(s, id, chan, title, filepath) ==
    [s EXCEPT !.videos = Append(s.videos, VideoRow(id, chan, title, filepath, 1))]

\* UPDATE videos ... WHERE id = ? raises only when a row matches.
UpdateVideoFails(s, id, title) ==
    /\ \E i \in DOMAIN s.videos : s.videos[i].id = id
    /\ title = NULL

UpdateVideoKeepChannel(s, id, chan, title, filepath) ==
    [s EXCEPT !.videos =
        [i \in DOMAIN s.videos |->
            IF s.videos[i].id = id
            THEN [s.videos[i] EXCEPT !.title = title, !.filepath = filepath, !.active = 1]
            ELSE s.videos[i]]]

\* UPDATE videos SET channelID=?,title=?,...,filepath=?,...,active=1 WHERE id = ?
UpdateVideo(s, id, chan, title, filepath) ==
    [s EXCEPT !.videos =
        [i \in DOMAIN s.videos |->
            IF s.videos[i].id = id
            THEN [s.videos[i] EXCEPT !.channelID = chan, !.title = title,
                                     !.filepath = filepath, !.active = 1]
            ELSE s.videos[i]]]

\* -------------------------------------------------------- pass bookkeeping
SetInactiveDropStale(rows) == << >>

\* UPDATE ... SET active = 0 on every row of a table.
SetInactive(rows) == [i \in DOMAIN rows |-> [rows[i] EXCEPT !.active = 0]]

CountRows(rows) == Len(rows)

\* SELECT count(*) FROM ... WHERE active = 1
CountActive(rows) == Cardinality({i \in DOMAIN rows : rows[i].active = 1})

\* ------------------------------------------------------------------ state
VARIABLES
    disk,       \* committed content of the file DIR/tube.db
    db,         \* what dbCon sees: the working copy with its open transaction
    pc,         \* position of the running process in main / reIndex
    args,       \* parsed command line: [memory, folder]
    fs,         \* the source directories under DIR
    archives,   \* reIndex: the candidate list
    idx,        \* reIndex: position in the candidate list
    channelID,  \* reIndex: id of the channel row of the current candidate
    runs,       \* invocations so far; int(time.time()) of a pass
    pre,        \* history: disk when the running process had opened the store
    log,        \* history: how each candidate of this pass ended
    committed,  \* history: dbCon.commit() of main has returned in this run
    persisted,  \* history: the committed pass has reached the file
    outcome,    \* history: how the process left the indexing block / ended
    exitAt,     \* history: pc at which that happened
    prev,       \* history: when idle, the pass the last run persisted, if any;
                \* in a run, that pass if this run repeats it (same sources,
                \* same registry)
    program,    \* connectDB: the script that was started
    version,    \* connectDB: the local variable version
    stmt,       \* connectDB: position in the upgrade chain
    tx,         \* connectDB: dbCon has an open transaction
    hist,       \* history: the upgrade steps this startup has committed
    spc,        \* position of a running atstatistics.py process in its main
    sdb,        \* what the dbCon of that process sees
    calc        \* the locals of calculate in that process

vars == << disk, db, pc, args, fs, archives, idx, channelID, runs,
           pre, log, committed, persisted, outcome, exitAt, prev,
           program, version, stmt, tx, hist, spc, sdb, calc >>

\* The variables of a statistics run.
statsVars == << spc, sdb, calc >>

\* The variables of connectDB's upgrade; the pass leaves them alone.
migVars == << program, version, stmt, tx, hist >>

\* No calculate is running.
NoCalc == [now |-> 0, oldest |-> 0, midweek |-> 0, total |-> << >>, error |-> "none"]

NoArgs == [memory |-> FALSE, folder |-> [add |-> FALSE, relpath |-> ".", recursive |-> FALSE]]

NoPass == [valid |-> FALSE, fs |-> EmptyFS, log |-> << >>]

Init ==
    /\ disk = NoFile
    /\ db = NoFile
    /\ pc = "idle"
    /\ args = NoArgs
    /\ fs = EmptyFS
    /\ archives = << >>
    /\ idx = 0
    /\ channelID = 0
    /\ runs = 0
    /\ pre = NoFile
    /\ log = << >>
    /\ committed = FALSE
    /\ persisted = FALSE
    /\ outcome = "none"
    /\ exitAt = "idle"
    /\ prev = NoPass
    /\ program = "archivetube"
    /\ version = 0
    /\ stmt = 0
    /\ tx = FALSE
    /\ hist = << >>
    /\ spc = "none"
    /\ sdb = NoFile
    /\ calc = NoCalc

\* The process ends (exit, uncaught exception, kill): the connection is
\* closed without commit, its open transaction is lost.  The locals of the
\* process are dead; the source directories may change before the next run.
Exit(how) ==
    /\ pc' = "idle"
    /\ outcome' = how
    /\ exitAt' = pc
    /\ prev' = IF persisted THEN [valid |-> TRUE, fs |-> fs, log |-> log] ELSE NoPass
    /\ db' = NoFile
    /\ args' = NoArgs
    /\ fs' = EmptyFS
    /\ archives' = << >>
    /\ idx' = 0
    /\ channelID' = 0
    /\ log' = << >>
    /\ UNCHANGED << migVars, statsVars, disk, runs, pre, committed, persisted >>

\* The current candidate and what its archive.db holds.
CurRelpath == archives[idx]
CurSource == fs[archives[idx]]

\* `continue' of the per-source loop.
NextSource(how) ==
    /\ log' = Append(log, how)
    /\ idx' = idx + 1
    /\ pc' = "source"

\* ---------------------------------------------------------------- actions
\* main: a new invocation: open DIR/tube.db or create it, and
\* INSERT INTO archives when -f is given.
Invoke ==
    /\ pc = "idle"
    /\ runs < MaxRuns
    /\ \E f \in FileSystems, m \in BOOLEAN, o \in AddOptions :
          LET opened == IF disk.exists THEN disk ELSE createDB
          IN  /\ o.add => Len(disk.archives) < MaxArchives
              /\ fs' = f
              /\ args' = [memory |-> m, folder |-> o]
              /\ disk' = IF disk.exists \/ m THEN disk ELSE createDB
              /\ db' = IF o.add
                       THEN [opened EXCEPT !.archives =
                               Append(opened.archives, [relpath |-> o.relpath,
                                                        recursive |-> o.recursive])]
                       ELSE opened
              /\ prev' = IF prev.valid /\ f = prev.fs /\ ~o.add THEN prev ELSE NoPass
    /\ pre' = disk'
    /\ runs' = runs + 1
    /\ pc' = "discover"
    /\ committed' = FALSE
    /\ persisted' = FALSE
    /\ outcome' = "running"
    /\ exitAt' = "idle"
    /\ archives' = << >>
    /\ idx' = 0
    /\ channelID' = 0
    /\ log' = << >>
    /\ UNCHANGED << migVars, statsVars >>

DiscoverSkipReset ==
    /\ pc = "discover"
    /\ ~DiscoveryRaises(fs, db.archives)
    /\ Discovery(fs, db.archives) # << >>
    /\ archives' = Discovery(fs, db.archives)
    /\ idx' = 1
    /\ pc' = "source"
    /\ UNCHANGED << migVars, statsVars, disk, db, args, fs, channelID, runs,
                    pre, log, committed, persisted, outcome, exitAt, prev >>

\* reIndex: the candidate list is not empty.
Discover ==
    /\ pc = "discover"
    /\ ~DiscoveryRaises(fs, db.archives)
    /\ Discovery(fs, db.archives) # << >>
    /\ archives' = Discovery(fs, db.archives)
    /\ pc' = "reset"
    /\ UNCHANGED << migVars, statsVars, disk, db, args, fs, idx, channelID, runs,
                    pre, log, committed, persisted, outcome, exitAt, prev >>

NoArchivesCommitted ==
    /\ pc = "discover"
    /\ ~DiscoveryRaises(fs, db.archives)
    /\ Discovery(fs, db.archives) = << >>
    /\ pc' = "idle"
    /\ outcome' = "nosources"
    /\ exitAt' = pc
    /\ disk' = IF args.memory THEN disk ELSE db
    /\ db' = NoFile
    /\ args' = NoArgs
    /\ fs' = EmptyFS
    /\ UNCHANGED << migVars, statsVars, archives, idx, channelID, runs, pre, log, committed, persisted, prev >>

\* reIndex: sys.exit("ERROR: No archives in database")
NoArchives ==
    /\ pc = "discover"
    /\ ~DiscoveryRaises(fs, db.archives)
    /\ Discovery(fs, db.archives) = << >>
    /\ Exit("nosources")

ResetAutocommit ==
    /\ pc = "reset"
    /\ db' = [db EXCEPT !.channels = SetInactive(db.channels),
                        !.videos = SetInactive(db.videos)]
    /\ disk' = IF args.memory THEN disk ELSE db'
    /\ idx' = 1
    /\ pc' = "source"
    /\ UNCHANGED << migVars, statsVars, args, fs, archives, channelID, runs,
                    pre, log, committed, persisted, outcome, exitAt, prev >>

\* reIndex: UPDATE channels SET active = 0; UPDATE videos SET active = 0;
Reset ==
    /\ pc = "reset"
    /\ db' = [db EXCEPT !.channels = SetInactive(db.channels),
                        !.videos = SetInactive(db.videos)]
    /\ idx' = 1
    /\ pc' = "source"
    /\ UNCHANGED << migVars, statsVars, disk, args, fs, archives, channelID, runs,
                    pre, log, committed, persisted, outcome, exitAt, prev >>

\* reIndex: the candidate's archive.db cannot be opened ("open"), its
\* version cannot be read ("version": taken as 1) or is too old, or its
\* channel row cannot be read ("channel"): print, continue.
SkipSource ==
    /\ pc = "source"
    /\ idx <= Len(archives)
    /\ HasMarker(fs, CurRelpath)
    /\ \E io \in {"ok", "open", "version", "channel"} :
          LET ver == IF io = "version" THEN LegacyVersion ELSE ReadVersion(CurSource)
          IN  io = "open" \/ ver < ArchiveDbVersion \/ io = "channel"
    /\ NextSource("skipped")
    /\ UNCHANGED << migVars, statsVars, disk, db, args, fs, archives, channelID, runs,
                    pre, committed, persisted, outcome, exitAt, prev >>

ChannelReadNoGate ==
    /\ pc = "source"
    /\ idx <= Len(archives)

\* The candidate's channel row has been read.
ChannelRead ==
    /\ pc = "source"
    /\ idx <= Len(archives)
    /\ HasMarker(fs, CurRelpath)
    /\ ReadVersion(CurSource) >= ArchiveDbVersion

WriteChannelReplace(s, relpath, abspath, name) ==
    IF ~InsertChannelFails(s, relpath, abspath, name)
    THEN [error |-> FALSE, store |-> InsertChannel(s, relpath, abspath, name)]
    ELSE IF UpdateChannelFails(s, relpath, abspath, name)
         THEN [error |-> TRUE, store |-> s]
         ELSE [error |-> FALSE,
               store |-> [s EXCEPT !.channels =
                   [i \in DOMAIN s.channels |->
                       IF s.channels[i].relpath = relpath
                       THEN ChannelRow(Len(s.channels) + 1, relpath, abspath, name, 1)
                       ELSE s.channels[i]]]]

\* reIndex: INSERT the channel row, on sqlite3.Error UPDATE it.
\* "error" stands for the sqlite3.Error of the UPDATE.
WriteChannel(s, relpath, abspath, name) ==
    IF ~InsertChannelFails(s, relpath, abspath, name)
    THEN [error |-> FALSE, store |-> InsertChannel(s, relpath, abspath, name)]
    ELSE IF UpdateChannelFails(s, relpath, abspath, name)
         THEN [error |-> TRUE, store |-> s]
         ELSE [error |-> FALSE, store |-> UpdateChannel(s, relpath, abspath, name)]

\* reIndex: add or update channel info and get channel id.
UpsertChannel ==
    /\ ChannelRead
    /\ LET w == WriteChannel(db, CurRelpath, AbsPath(CurRelpath), CurSource.name)
           id == SelectChannelId(w.store, CurRelpath)
       IN  /\ ~w.error
           /\ id # 0
           /\ db' = w.store
           /\ channelID' = id
           /\ pc' = "videos"
    /\ UNCHANGED << migVars, statsVars, disk, args, fs, archives, idx, runs,
                    pre, log, committed, persisted, outcome, exitAt, prev >>

\* reIndex: the UPDATE raised sqlite3.Error: print, continue.
ChannelWriteError ==
    /\ ChannelRead
    /\ WriteChannel(db, CurRelpath, AbsPath(CurRelpath), CurSource.name).error
    /\ NextSource("chanwrite")
    /\ UNCHANGED << migVars, statsVars, disk, db, args, fs, archives, channelID, runs,
                    pre, committed, persisted, outcome, exitAt, prev >>

\* reIndex: fetchone() returned None, r[0] raises TypeError, which nothing
\* catches: the process ends.
ChannelIdTypeError ==
    /\ ChannelRead
    /\ LET w == WriteChannel(db, CurRelpath, AbsPath(CurRelpath), CurSource.name)
       IN  /\ ~w.error
           /\ SelectChannelId(w.store, CurRelpath) = 0
    /\ Exit("typeerror")

\* reIndex: the videos table of the candidate cannot be read: print, continue.
VideoReadError ==
    /\ pc = "videos"
    /\ NextSource("vidread")
    /\ UNCHANGED << migVars, statsVars, disk, db, args, fs, archives, channelID, runs,
                    pre, committed, persisted, outcome, exitAt, prev >>

WriteVideoNoChannel(s, chan, abspath, video) ==
    LET filepath == JoinPath(abspath, video.filename)
    IN  IF ~InsertVideoFails(s, video.id, video.title)
        THEN [error |-> FALSE, store |-> InsertVideo(s, video.id, 0, video.title, filepath)]
        ELSE IF UpdateVideoFails(s, video.id, video.title)
             THEN [error |-> TRUE, store |-> s]
             ELSE [error |-> FALSE, store |-> UpdateVideo(s, video.id, 0, video.title, filepath)]

\* reIndex: INSERT the video row, on sqlite3.Error UPDATE it.
WriteVideo(s, chan, abspath, video) ==
    LET filepath == JoinPath(abspath, video.filename)
    IN  IF ~InsertVideoFails(s, video.id, video.title)
        THEN [error |-> FALSE, store |-> InsertVideo(s, video.id, chan, video.title, filepath)]
        ELSE IF UpdateVideoFails(s, video.id, video.title)
             THEN [error |-> TRUE, store |-> s]
             ELSE [error |-> FALSE, store |-> UpdateVideo(s, video.id, chan, video.title, filepath)]

\* reIndex: the loop over the videos read; the first sqlite3.Error of an
\* UPDATE ends it, the rows written before stay written.
RECURSIVE WriteVideos(_, _, _, _)
WriteVideos(s, chan, abspath, videos) ==
    IF videos = << >> THEN [error |-> FALSE, store |-> s]
    ELSE LET w == WriteVideo(s, chan, abspath, Head(videos))
         IN  IF w.error THEN w
             ELSE WriteVideos(w.store, chan, abspath, Tail(videos))

\* reIndex: add or update the videos of the candidate, close its archive.db.
UpsertVideos ==
    /\ pc = "videos"
    /\ LET w == WriteVideos(db, channelID, AbsPath(CurRelpath), CurSource.videos)
       IN  /\ ~w.error
           /\ db' = w.store
    /\ NextSource("ok")
    /\ UNCHANGED << migVars, statsVars, disk, args, fs, archives, channelID, runs,
                    pre, committed, persisted, outcome, exitAt, prev >>

\* reIndex: an UPDATE of a video raised sqlite3.Error: print, continue.
VideoWriteError ==
    /\ pc = "videos"
    /\ LET w == WriteVideos(db, channelID, AbsPath(CurRelpath), CurSource.videos)
       IN  /\ w.error
           /\ db' = w.store
    /\ NextSource("vidwrite")
    /\ UNCHANGED << migVars, statsVars, disk, args, fs, archives, channelID, runs,
                    pre, committed, persisted, outcome, exitAt, prev >>

FinalizeCountAll ==
    /\ pc = "source"
    /\ idx > Len(archives)
    /\ db' = [db EXCEPT !.info = Info(runs, CountRows(db.channels), CountRows(db.videos),
                                      db.info.dbversion)]
    /\ pc' = "commit"
    /\ UNCHANGED << migVars, statsVars, disk, args, fs, archives, idx, channelID, runs,
                    pre, log, committed, persisted, outcome, exitAt, prev >>

\* reIndex: update info fields.
Finalize ==
    /\ pc = "source"
    /\ idx > Len(archives)
    /\ db' = [db EXCEPT !.info = Info(runs, CountActive(db.channels), CountActive(db.videos),
                                      db.info.dbversion)]
    /\ pc' = "commit"
    /\ UNCHANGED << migVars, statsVars, disk, args, fs, archives, idx, channelID, runs,
                    pre, log, committed, persisted, outcome, exitAt, prev >>

\* main: dbCon.commit()
Commit ==
    /\ pc = "commit"
    /\ committed' = TRUE
    /\ IF args.memory
       THEN /\ pc' = "remove"
            /\ UNCHANGED << migVars, statsVars, disk, persisted >>
       ELSE /\ disk' = db
            /\ persisted' = TRUE
            /\ pc' = "serving"
    /\ UNCHANGED << migVars, statsVars, db, args, fs, archives, idx, channelID, runs,
                    pre, log, outcome, exitAt, prev >>

\* main: dbCon.commit() raises sqlite3.Error, which main does not catch.
CommitFails ==
    /\ pc = "commit"
    /\ Exit("commiterror")

\* main, -m: os.remove(dbPath)
RemoveFile ==
    /\ pc = "remove"
    /\ disk' = NoFile
    /\ pc' = "backup"
    /\ UNCHANGED << migVars, statsVars, db, args, fs, archives, idx, channelID, runs,
                    pre, log, committed, persisted, outcome, exitAt, prev >>

\* main, -m: dbCon.backup(fileDBCon)
Backup ==
    /\ pc = "backup"
    /\ disk' = db
    /\ persisted' = TRUE
    /\ pc' = "serving"
    /\ UNCHANGED << migVars, statsVars, db, args, fs, archives, idx, channelID, runs,
                    pre, log, committed, outcome, exitAt, prev >>

\* main: KeyboardInterrupt inside the indexing block: print "Aborted!",
\* then start the server on the same connection.
Interruptible == {"discover", "reset", "source", "videos", "commit", "remove", "backup"}

Interrupt ==
    /\ pc \in Interruptible
    /\ pc' = "serving"
    /\ outcome' = "interrupted"
    /\ exitAt' = pc
    /\ args' = NoArgs
    /\ fs' = EmptyFS
    /\ archives' = << >>
    /\ idx' = 0
    /\ channelID' = 0
    /\ log' = << >>
    /\ prev' = NoPass
    /\ UNCHANGED << migVars, statsVars, disk, db, runs, pre, committed, persisted >>

\* main: the server thread ends (KeyboardInterrupt in join), the process exits.
ServerStop ==
    /\ pc = "serving"
    /\ Exit("stopped")

\* The process is killed.
Kill ==
    /\ pc # "idle"
    /\ Exit("killed")

Next ==
    \/ Invoke
    \/ Discover
    \/ NoArchives
    \/ Reset
    \/ SkipSource
    \/ UpsertChannel
    \/ ChannelWriteError
    \/ ChannelIdTypeError
    \/ VideoReadError
    \/ UpsertVideos
    \/ VideoWriteError
    \/ Finalize
    \/ Commit
    \/ CommitFails
    \/ RemoveFile
    \/ Backup
    \/ Interrupt
    \/ ServerStop
    \/ Kill

Spec == Init /\ [][Next]_vars

\* ------------------------------------------------------- what is observed
\* The catalog a query sees: channel rows, video rows, the status row
\* (SELECT lastupdate,channels,videos FROM info).
Catalog(s) ==
    [channels |-> s.channels, videos |-> s.videos,
     status |-> << s.info.lastupdate, s.info.channels, s.info.videos >>]

\* What a process that opens DIR/tube.db now finds: whether the file is
\* there, and its committed catalog.
ReaderView == [exists |-> disk.exists, catalog |-> Catalog(disk)]

\* What the Server thread started by main reads: it queries dbCon.
Served == Catalog(db)

\* The pass of this run has been committed and the process is still there.
PassCommitted == committed /\ pc \in {"remove", "backup", "serving"} /\ outcome = "running"

\* ------------------------------------------------------------------ claims

\* C1: a process killed after the activation reset or after an upsert of a
\* pass, but before the commit in main, leaves the persisted store (channel
\* rows, video rows, active flags, status row, registrations) identical to
\* what it was before the pass started.
C1_KillBeforeCommitKeepsStore ==
    (pc = "idle" /\ outcome = "killed" /\ ~committed
        /\ exitAt \in {"source", "videos", "commit"})
    => disk = pre

\* C1 witness: killed after a channel upsert, in a pass whose reset had
\* deactivated a row of a store that held an active channel.
C1_Witness ==
    /\ pc = "idle" /\ outcome = "killed" /\ ~committed /\ exitAt = "videos"
    /\ disk.exists
    /\ \E i \in DOMAIN disk.channels : disk.channels[i].active = 1
    /\ disk = pre

\* C2: a process that reads the store while a run is in flight finds either
\* the complete pre-pass catalog or the complete post-pass catalog, with
\* the store on disk and with the in-memory working copy (-m) alike.
C2_ReaderSeesPreOrPost ==
    pc # "idle" =>
        \/ ReaderView = [exists |-> pre.exists, catalog |-> Catalog(pre)]
        \/ committed /\ ReaderView = [exists |-> TRUE, catalog |-> Catalog(db)]

\* C3: after a KeyboardInterrupt before the commit, the catalog served by
\* the front end that main starts, and the catalog on disk, both equal the
\* pre-pass catalog.
C3_InterruptDiscards ==
    (pc = "serving" /\ outcome = "interrupted" /\ ~committed)
    => (Served = Catalog(pre) /\ Catalog(disk) = Catalog(pre))

\* C4: once a candidate of a pass has been skipped for a read failure (open,
\* version, channel or video read), the pass is not aborted: it goes on with
\* the remaining candidates and reaches finalize and commit; a process that
\* is neither killed nor interrupted ends a pass early only for a failing
\* commit.
C4_ReadFailureNeverAborts ==
    [][(pc \in {"source", "videos"}
          /\ \E k \in DOMAIN log : log[k] \in {"skipped", "vidread"})
       => \/ pc' \in {"source", "videos", "commit"}
          \/ outcome' \in {"killed", "interrupted"}]_vars

\* C5: after a committed pass a channel or video row is active only if its
\* source completed every step of that pass (channel read, channel write,
\* video read, all video writes).
C5_ActiveOnlyIfSourceCompleted ==
    PassCommitted =>
        /\ \A i \in DOMAIN db.channels :
              db.channels[i].active = 1 =>
                 \E k \in DOMAIN archives :
                    archives[k] = db.channels[i].relpath /\ log[k] = "ok"
        /\ \A i \in DOMAIN db.videos :
              db.videos[i].active = 1 =>
                 \E k \in DOMAIN archives :
                    /\ log[k] = "ok"
                    /\ \E j \in DOMAIN fs[archives[k]].videos :
                          fs[archives[k]].videos[j].id = db.videos[i].id

\* C6: a write failure while upserting a candidate's channel (the INSERT is
\* refused for any cause: an existing natural key, a NULL in a NOT NULL
\* column, a clashing absolute path) is a warning and a continue, or the
\* update succeeds: it never escapes the per-source loop.
C6_WriteFailureStaysInLoop ==
    [][(ChannelRead
          /\ InsertChannelFails(db, CurRelpath, AbsPath(CurRelpath), CurSource.name))
       => \/ pc' \in {"source", "videos"}
          \/ outcome' \in {"killed", "interrupted"}]_vars

\* Natural keys of a store: no two channel rows with one relpath, no two
\* video rows with one external video ID.
UniqueKeys(s) ==
    /\ \A i, j \in DOMAIN s.channels :
          s.channels[i].relpath = s.channels[j].relpath => i = j
    /\ \A i, j \in DOMAIN s.videos :
          s.videos[i].id = s.videos[j].id => i = j

\* C7: in every reachable state of the aggregated store, in the working
\* copy and on disk, no two channel rows share a relpath and no two video
\* rows share an external video ID; two candidates with one relpath
\* collapse to one channel row.
C7_NaturalKeysUnique == UniqueKeys(db) /\ UniqueKeys(disk)

\* C7 witness: a pass has synchronised two candidates with the same relpath
\* and the channels table holds one row for it.
C7_Witness ==
    /\ pc = "source"
    /\ \E k1, k2 \in DOMAIN log :
          /\ k1 < k2
          /\ archives[k1] = archives[k2]
          /\ log[k1] = "ok" /\ log[k2] = "ok"
          /\ Cardinality({i \in DOMAIN db.channels :
                             db.channels[i].relpath = archives[k1]}) = 1

\* The status row of s holds the active-row counts of s and the time t.
SummaryIs(s, t) ==
    /\ s.info.channels = CountActive(s.channels)
    /\ s.info.videos = CountActive(s.videos)
    /\ s.info.lastupdate = t

\* C8: at the end of every committed pass the status row holds channels =
\* number of active channel rows, videos = number of active video rows, and
\* the timestamp of the pass; so does the file once the pass has reached it.
C8_SummaryConsistent ==
    /\ (committed /\ pc # "idle") => SummaryIs(db, runs)
    /\ persisted => SummaryIs(disk, runs)

\* C8 witness: one source with 3 videos gives {channels: 1, videos: 3}, all
\* rows active, and a later pass has left rows inactive.
C8_Witness ==
    /\ persisted
    /\ disk.info.channels = 1 /\ disk.info.videos = 3
    /\ Len(disk.channels) = 1 /\ Len(disk.videos) = 3
    /\ \A i \in DOMAIN disk.videos : disk.videos[i].active = 1

\* Every video row's channelID is the id of a channel row.
ForeignKeys(s) ==
    \A i \in DOMAIN s.videos :
       \E c \in DOMAIN s.channels : s.channels[c].id = s.videos[i].channelID

\* C9: in every committed state, and in the working copy, every video row's
\* channelID equals the surrogate ID of an existing channel row, after any
\* sequence of passes.
C9_ForeignKeyResolves == ForeignKeys(disk) /\ ForeignKeys(db)

\* C9 witness: a second pass has reached the file; a source has gone inactive
\* and a video row points to the channel row of the other source.
C9_Witness ==
    /\ persisted /\ runs = 2
    /\ \E c \in DOMAIN disk.channels : disk.channels[c].active = 0
    /\ \E i \in DOMAIN disk.videos :
          /\ disk.videos[i].active = 1
          /\ \E c \in DOMAIN disk.channels :
                /\ disk.channels[c].id = disk.videos[i].channelID
                /\ disk.channels[c].active = 1
                /\ c = 2

\* Equal but for the status timestamp.
SameButTimestamp(s, t) ==
    /\ s.channels = t.channels
    /\ s.videos = t.videos
    /\ s.archives = t.archives
    /\ s.info.channels = t.info.channels
    /\ s.info.videos = t.info.videos

\* C10: a second pass against unchanged sources and an unchanged registry
\* (every read ending as in the first) yields identical channel and video
\* field values, surrogate IDs, active flags and active-row counts; only
\* the status timestamp may differ.
C10_PassIdempotent ==
    (PassCommitted /\ prev.valid /\ prev.log = log)
    => /\ SameButTimestamp(db, pre)
       /\ persisted => SameButTimestamp(disk, pre)

\* C10 witness: a repeated pass that synchronised a source with videos has
\* reached the file, with a new timestamp.
C10_Witness ==
    /\ PassCommitted /\ persisted /\ prev.valid /\ prev.log = log
    /\ \E k \in DOMAIN log : log[k] = "ok"
    /\ Len(disk.videos) >= 2
    /\ disk.info.lastupdate # pre.info.lastupdate

\* The channel rows of s are rows of t, with the same surrogate ID and
\* relpath.
SameChannelIds(s, t) ==
    \A i \in DOMAIN s.channels :
       /\ i \in DOMAIN t.channels
       /\ t.channels[i].id = s.channels[i].id
       /\ t.channels[i].relpath = s.channels[i].relpath

\* C11: once a channel row has been inserted for a relpath, no later step of
\* any pass changes its surrogate ID, in the working copy or in the file;
\* a later successful sync of that relpath gets and uses the ID assigned
\* on first insert.
C11_SurrogateIdStable ==
    [][/\ (pc # "idle" /\ pc' # "idle") => SameChannelIds(db, db')
       /\ (disk.exists /\ disk'.exists) => SameChannelIds(disk, disk')
       /\ (pc = "source" /\ pc' = "videos") =>
             \A i \in DOMAIN db.channels :
                db.channels[i].relpath = CurRelpath =>
                   channelID' = db.channels[i].id]_vars

\* C11 witness: a later pass has synchronised a relpath whose row was
\* inserted by an earlier pass, second in the table, and has got its ID.
C11_Witness ==
    /\ pc = "videos"
    /\ channelID = 2
    /\ Len(pre.channels) = 2
    /\ pre.channels[2].relpath = CurRelpath
    /\ pre.channels[2].id = 2

C14_NoSourcesLeavesStore ==
    (pc = "idle" /\ outcome = "nosources") => (~committed /\ ~persisted /\ disk = pre)

\* C14 witness: the no-sources exit on a store that holds a registration
\* and active rows.
C14_Witness ==
    /\ pc = "idle" /\ outcome = "nosources"
    /\ Len(disk.archives) >= 1
    /\ \E i \in DOMAIN disk.channels : disk.channels[i].active = 1
    /\ disk.info.videos >= 1

\* ------------------------------------------------------- source discovery
\* Source discovery on its own: main has opened a store that an earlier
\* pass committed, the directories under DIR are any tree, directories
\* are deleted before reIndex lists them.

\* The registrations -f [-r] can have made.
Registrations == [relpath : {".", "a", "b"}, recursive : BOOLEAN]
Registries ==
    UNION {[1..n -> Registrations] : n \in 0..MaxArchives}

\* The trees under DIR: a directory exists only inside an existing one.
Trees ==
    {f \in UNION {[S -> {NoSource, SrcOne}] : S \in SUBSET Dirs} :
        "a/c" \in DOMAIN f => "a" \in DOMAIN f}

\* The store with the registrations rows, after a committed pass that
\* synchronised nothing ...
Registered(rows) ==
    [createDB EXCEPT !.archives = rows, !.info = Info(1, 0, 0, DbVersion)]

\* ... and after a committed pass over the one candidate relpath.
SyncedOne(rows, relpath) ==
    LET c == WriteChannel(Registered(rows), relpath, AbsPath(relpath), SrcOne.name).store
        v == WriteVideos(c, SelectChannelId(c, relpath), AbsPath(relpath), SrcOne.videos).store
    IN  [v EXCEPT !.info = Info(1, CountActive(v.channels), CountActive(v.videos), DbVersion)]

StoresOf(f, rows) ==
    IF rows = << >> THEN {createDB}
    ELSE {Registered(rows)} \cup
         {SyncedOne(rows, c) : c \in {d \in DOMAIN f :
             ~DiscoveryRaises(f, rows) /\ Discovery(f, rows) = << d >>}}

InitDisc ==
    /\ fs \in Trees
    /\ \E rows \in Registries : disk \in StoresOf(fs, rows)
    /\ db = disk
    /\ pre = disk
    /\ pc = "discover"
    /\ args = NoArgs
    /\ archives = << >>
    /\ idx = 0
    /\ channelID = 0
    /\ runs = 2
    /\ log = << >>
    /\ committed = FALSE
    /\ persisted = FALSE
    /\ outcome = "running"
    /\ exitAt = "idle"
    /\ prev = NoPass
    /\ program = "archivetube"
    /\ version = 0
    /\ stmt = 0
    /\ tx = FALSE
    /\ hist = << >>
    /\ spc = "none"
    /\ sdb = NoFile
    /\ calc = NoCalc

\* A directory under DIR is deleted, with all it holds.
DeleteDir ==
    /\ pc = "discover"
    /\ \E d \in DOMAIN fs \ {"."} :
          fs' = [e \in {x \in DOMAIN fs : x # d /\ (d = "a" => x # "a/c")} |-> fs[e]]
    /\ UNCHANGED << migVars, statsVars, disk, db, pc, args, archives, idx, channelID, runs,
                    pre, log, committed, persisted, outcome, exitAt, prev >>

\* reIndex: os.listdir(abspath) raises FileNotFoundError, which nothing
\* catches: the process ends with a traceback.
DiscoverOSError ==
    /\ pc = "discover"
    /\ DiscoveryRaises(fs, db.archives)
    /\ Exit("oserror")

NextDisc ==
    \/ DeleteDir
    \/ Discover
    \/ NoArchives
    \/ DiscoverOSError

SpecDisc == InitDisc /\ [][NextDisc]_vars

\* C15: when the directory of the only registration has been deleted,
\* discovery finds no candidate, the run ends with the no-sources error and
\* the committed catalog is what it was, for a non-recursive and for a
\* recursive registration.
C15_DeletedSourceNoCandidates ==
    [][(/\ pc = "discover" /\ pc' # "discover"
        /\ Len(db.archives) = 1
        /\ ~DirExists(fs, db.archives[1].relpath))
       => /\ pc' = "idle" /\ outcome' = "nosources"
          /\ disk' = pre /\ disk' = disk]_vars

\* The parent directory of a directory under DIR.
Parent(d) == IF d = "a/c" THEN "a" ELSE "."

\* seq holds each element of set once, and nothing else.
ListsOnce(seq, set) ==
    /\ Len(seq) = Cardinality(set)
    /\ {seq[i] : i \in DOMAIN seq} = set

\* seq is what one archives row contributes to the candidate list.
RowCandidates(f, item, seq) ==
    IF item.recursive
    THEN ListsOnce(seq, {d \in DOMAIN f \ {"."} :
                            Parent(d) = item.relpath /\ f[d].marker})
    ELSE seq = IF item.relpath \in DOMAIN f /\ f[item.relpath].marker
               THEN << item.relpath >> ELSE << >>

\* seq is the rows' contributions one after the other, in table order.
RECURSIVE RegistryCandidates(_, _, _)
RegistryCandidates(f, rows, seq) ==
    IF rows = << >> THEN seq = << >>
    ELSE \E k \in 0..Len(seq) :
            /\ RowCandidates(f, Head(rows), SubSeq(seq, 1, k))
            /\ RegistryCandidates(f, Tail(rows), SubSeq(seq, k + 1, Len(seq)))

\* C16: when discovery returns, the candidate list holds, row by row in
\* registry order and with duplicates kept, the row's own path iff it holds
\* the marker (non-recursive) or exactly the immediate subdirectories that
\* hold the marker (recursive); the pass goes on iff the list is not empty.
C16_DiscoveryResult ==
    [][(pc = "discover" /\ pc' # "discover" /\ ~DiscoveryRaises(fs, db.archives))
       => /\ RegistryCandidates(fs, db.archives,
                IF pc' = "reset" THEN archives' ELSE << >>)
          /\ pc' = "reset" => archives' # << >>
          /\ pc' # "reset" => outcome' = "nosources"]_vars

\* C16 witness: a recursive row of DIR whose root and whose deeper
\* descendant hold the marker has yielded its two marker-bearing
\* subdirectories only, after a row that yielded one of them already.
C16_Witness ==
    /\ pc = "reset"
    /\ db.archives = << [relpath |-> "a", recursive |-> FALSE],
                        [relpath |-> ".", recursive |-> TRUE] >>
    /\ HasMarker(fs, ".") /\ HasMarker(fs, "a/c")
    /\ archives = << "a", "a", "b" >>

\* -------------------------------------------------------- schema upgrade
\* connectDB of archivetube.py and connectDB / upgradeDB of atcommon.py on
\* an existing tube.db.  Here the store is its recorded version, the
\* columns and tables the upgrade steps add, and whether the videos table
\* holds rows; `disk' is the file, `db' what dbCon sees.

MaxStartups == 2      \* startups in one behaviour
StatsDbVersion == 5   \* __dbversion__ of atcommon.py

Programs == {"archivetube", "atstatistics"}

\* __dbversion__ of the module whose connectDB the program calls.
DbVersionOf(p) == IF p = "archivetube" THEN DbVersion ELSE StatsDbVersion

Stmt(op, step, obj, notnull) == [op |-> op, step |-> step, obj |-> obj, notnull |-> notnull]

\* The statements of "Perform upgrade to version n", after its
\* `if version < n:'.
Body(n) ==
    IF n = 2 THEN
        << Stmt("delete", 2, "videos", FALSE),
           Stmt("alter", 2, "videos.language", TRUE),
           Stmt("alter", 2, "videos.width", TRUE),
           Stmt("alter", 2, "videos.height", TRUE),
           Stmt("alter", 2, "videos.resolution", TRUE),
           Stmt("alter", 2, "videos.viewcount", FALSE),
           Stmt("alter", 2, "videos.likecount", FALSE),
           Stmt("alter", 2, "videos.dislikecount", FALSE),
           Stmt("alter", 2, "videos.statisticsupdated", TRUE) >>
    ELSE IF n = 3 THEN
        << Stmt("alter", 3, "channels.active", FALSE),
           Stmt("alter", 3, "videos.active", FALSE) >>
    ELSE IF n = 4 THEN
        << Stmt("alter", 4, "videos.chapters", FALSE) >>
    ELSE
        << Stmt("alter", 5, "info.statisticsupdated", FALSE),
           Stmt("create", 5, "statsOverall", FALSE),
           Stmt("create", 5, "statsWeekly", FALSE),
           Stmt("create", 5, "statsPlots", FALSE) >>

\* One step: the test, the body, version = n, UPDATE info, dbCon.commit().
Step(n) ==
    << Stmt("if", n, "", FALSE) >> \o Body(n) \o
    << Stmt("assign", n, "", FALSE), Stmt("update", n, "info.dbversion", FALSE),
       Stmt("commit", n, "", FALSE) >>

\* The body of the try block of the program's connectDB / upgradeDB.
Chain(p) ==
    IF p = "archivetube" THEN Step(2) \o Step(3) \o Step(4)
    ELSE Step(2) \o Step(3) \o Step(4) \o Step(5)

\* The columns and tables a store of version v has on top of version 1.
RECURSIVE SchemaOf(_)
SchemaOf(v) ==
    IF v < 2 THEN {}
    ELSE SchemaOf(v - 1) \cup {Body(v)[i].obj : i \in {j \in DOMAIN Body(v) : Body(v)[j].op # "delete"}}

MigStore(v, schema, rows) == [version |-> v, schema |-> schema, videos |-> rows]

\* The files connectDB can find: a store as createDB of some release made
\* it or as a completed upgrade left it, with or without video rows, and
\* a file whose info table gives no version.
MigStores ==
    {MigStore(v, SchemaOf(v), r) : v \in 1..StatsDbVersion, r \in BOOLEAN}
    \cup {MigStore(Unreadable, {}, FALSE)}

InitMig ==
    /\ disk \in MigStores
    /\ db = disk
    /\ pre = disk
    /\ pc = "idle"
    /\ program = "archivetube"
    /\ version = 0
    /\ stmt = 0
    /\ tx = FALSE
    /\ hist = << >>
    /\ spc = "none"
    /\ sdb = NoFile
    /\ calc = NoCalc
    /\ runs = 0
    /\ outcome = "none"
    /\ exitAt = "idle"
    /\ args = NoArgs
    /\ fs = EmptyFS
    /\ archives = << >>
    /\ idx = 0
    /\ channelID = 0
    /\ log = << >>
    /\ committed = FALSE
    /\ persisted = FALSE
    /\ prev = NoPass

passVars == << args, fs, archives, idx, channelID, log, committed, persisted, prev >>

\* The process ends or connectDB returns: an open transaction is lost.
MigExit(how) ==
    /\ pc' = "idle"
    /\ outcome' = how
    /\ exitAt' = pc
    /\ db' = disk'
    /\ tx' = FALSE
    /\ version' = 0
    /\ stmt' = 0
    /\ UNCHANGED << passVars, statsVars, program, hist, runs, pre >>

\* main: sqlite3.connect(path) on the existing file.
Startup ==
    /\ pc = "idle"
    /\ runs < MaxStartups
    /\ program' \in Programs
    /\ runs' = runs + 1
    /\ pre' = disk
    /\ db' = disk
    /\ tx' = FALSE
    /\ hist' = << >>
    /\ version' = 0
    /\ stmt' = 0
    /\ outcome' = "running"
    /\ exitAt' = "idle"
    /\ pc' = "connect"
    /\ UNCHANGED << passVars, statsVars, disk >>

UnsupportedDatabaseAsLegacy ==
    /\ pc = "connect"
    /\ db.version = Unreadable
    /\ version' = LegacyVersion
    /\ pc' = "upgrade"
    /\ stmt' = 1
    /\ UNCHANGED << passVars, statsVars, disk, db, program, tx, hist, runs, pre, outcome, exitAt >>

\* connectDB: sys.exit("ERROR: Unsupported database!")
UnsupportedDatabase ==
    /\ pc = "connect"
    /\ db.version = Unreadable
    /\ UNCHANGED disk
    /\ MigExit("unsupported")

GetVersionLeq ==
    /\ pc = "connect"
    /\ db.version # Unreadable
    /\ version' = db.version
    /\ IF db.version <= DbVersionOf(program)
       THEN pc' = "upgrade" /\ stmt' = 1
       ELSE pc' = "final" /\ stmt' = 0
    /\ UNCHANGED << passVars, statsVars, disk, db, program, tx, hist, runs, pre, outcome, exitAt >>

\* connectDB: version = r.fetchone()[0]; if version < __dbversion__:
GetVersion ==
    /\ pc = "connect"
    /\ db.version # Unreadable
    /\ version' = db.version
    /\ IF db.version < DbVersionOf(program)
       THEN pc' = "upgrade" /\ stmt' = 1
       ELSE pc' = "final" /\ stmt' = 0
    /\ UNCHANGED << passVars, statsVars, disk, db, program, tx, hist, runs, pre, outcome, exitAt >>

\* The statement the upgrade is at.
Cur == Chain(program)[stmt]
AtStmt(ops) == pc = "upgrade" /\ stmt <= Len(Chain(program)) /\ Cur.op \in ops

\* The position after the step of the statement at position i.
AfterStep(p, i) ==
    LET later == {j \in DOMAIN Chain(p) : Chain(p)[j].step > Chain(p)[i].step}
    IN  IF later = {} THEN Len(Chain(p)) + 1
        ELSE CHOOSE j \in later : \A k \in later : j <= k

TestStepElif ==
    /\ AtStmt({"if"})
    /\ stmt' = IF version < Cur.step /\ hist = << >> THEN stmt + 1
               ELSE AfterStep(program, stmt)
    /\ UNCHANGED << passVars, statsVars, disk, db, pc, program, version, tx, hist, runs, pre,
                    outcome, exitAt >>

\* if version < n:
TestStep ==
    /\ AtStmt({"if"})
    /\ stmt' = IF version < Cur.step THEN stmt + 1 ELSE AfterStep(program, stmt)
    /\ UNCHANGED << passVars, statsVars, disk, db, pc, program, version, tx, hist, runs, pre,
                    outcome, exitAt >>

\* version = n
AssignVersion ==
    /\ AtStmt({"assign"})
    /\ version' = Cur.step
    /\ stmt' = stmt + 1
    /\ UNCHANGED << passVars, statsVars, disk, db, pc, program, tx, hist, runs, pre, outcome, exitAt >>

\* The statement raises sqlite3.Error whatever the environment: a column
\* that is there already, a NOT NULL column without default on a table
\* that holds rows.
MustFail(s, st) ==
    /\ st.op = "alter"
    /\ \/ st.obj \in s.schema
       \/ st.notnull /\ s.videos

\* db.execute of DELETE / UPDATE: sqlite3 begins a transaction before it.
ExecDML ==
    /\ AtStmt({"delete", "update"})
    /\ db' = IF Cur.op = "delete" THEN [db EXCEPT !.videos = FALSE]
             ELSE [db EXCEPT !.version = version]
    /\ tx' = TRUE
    /\ stmt' = stmt + 1
    /\ UNCHANGED << passVars, statsVars, disk, pc, program, version, hist, runs, pre, outcome, exitAt >>

\* db.execute of ALTER TABLE / CREATE TABLE IF NOT EXISTS: sqlite3 begins no
\* transaction for it; outside one the statement is committed by itself.
ExecDDL ==
    /\ AtStmt({"alter", "create"})
    /\ ~MustFail(db, Cur)
    /\ db' = [db EXCEPT !.schema = @ \cup {Cur.obj}]
    /\ disk' = IF tx THEN disk ELSE db'
    /\ stmt' = stmt + 1
    /\ UNCHANGED << passVars, statsVars, pc, program, version, tx, hist, runs, pre, outcome, exitAt >>

\* dbCon.commit() of a step
StepCommit ==
    /\ AtStmt({"commit"})
    /\ disk' = db
    /\ tx' = FALSE
    /\ hist' = Append(hist, Cur.step)
    /\ stmt' = stmt + 1
    /\ UNCHANGED << passVars, statsVars, db, pc, program, version, runs, pre, outcome, exitAt >>

\* A statement or commit of the chain raises sqlite3.Error: because it must,
\* or because of the environment (database locked, disk full, I/O error).
StatementFails ==
    /\ AtStmt({"delete", "alter", "create", "update", "commit"})
    /\ pc' = "except"
    /\ UNCHANGED << passVars, statsVars, disk, db, program, version, stmt, tx, hist, runs, pre,
                    outcome, exitAt >>

\* except sqlite3.Error: dbCon.rollback(); dbCon.close(); sys.exit(...)
Rollback ==
    /\ pc = "except"
    /\ UNCHANGED disk
    /\ MigExit("upgradeerror")

\* The chain is through.
ChainDone ==
    /\ pc = "upgrade"
    /\ stmt > Len(Chain(program))
    /\ pc' = "final"
    /\ stmt' = 0
    /\ UNCHANGED << passVars, statsVars, disk, db, program, version, tx, hist, runs, pre,
                    outcome, exitAt >>

\* dbCon.commit(); return dbCon: the program goes on with the store.
FinalCommit ==
    /\ pc = "final"
    /\ disk' = IF tx THEN db ELSE disk
    /\ MigExit("connected")

\* The process is killed during connectDB.
MigKill ==
    /\ pc # "idle"
    /\ UNCHANGED disk
    /\ MigExit("killed")

NextMig ==
    \/ Startup
    \/ UnsupportedDatabase
    \/ GetVersion
    \/ TestStep
    \/ AssignVersion
    \/ ExecDML
    \/ ExecDDL
    \/ StepCommit
    \/ StatementFails
    \/ Rollback
    \/ ChainDone
    \/ FinalCommit
    \/ MigKill

SpecMig == InitMig /\ [][NextMig]_vars

\* The store has the complete schema of its recorded version, and no more.
Clean(s) == s.version # Unreadable /\ s.schema = SchemaOf(s.version)

\* C17: a startup that succeeds on a store of version V, 1 <= V <= V_max,
\* has committed the steps V+1, ..., V_max, each once and in this order,
\* and leaves the store at version V_max with the schema of V_max.
C17_MigrationOrder ==
    (/\ pc = "idle" /\ outcome = "connected"
     /\ pre.version >= 1 /\ pre.version <= DbVersionOf(program))
    => /\ hist = [i \in 1..(DbVersionOf(program) - pre.version) |-> pre.version + i]
       /\ disk.version = DbVersionOf(program)
       /\ SchemaOf(DbVersionOf(program)) \subseteq disk.schema
       /\ Clean(pre) => Clean(disk)

\* C17 witness: the statistics program has started on a version 1 store
\* and has committed the four steps.
C17_Witness ==
    /\ pc = "idle" /\ outcome = "connected"
    /\ program = "atstatistics"
    /\ pre.version = 1
    /\ hist = << 2, 3, 4, 5 >>
    /\ disk = MigStore(5, SchemaOf(5), FALSE)

\* C18: when a statement of an upgrade step has failed and the startup has
\* been aborted, the file is a complete store of the version of the last
\* step that was completed, with nothing of the failed step in it.
C18_FailedStepRolledBack ==
    (pc = "idle" /\ outcome = "upgradeerror" /\ Clean(pre))
    => /\ Clean(disk)
       /\ disk.version = IF hist = << >> THEN pre.version ELSE hist[Len(hist)]
       /\ hist = << >> => disk = pre

\* C19: a kill during the upgrade leaves the file at a version N with the
\* changes of all steps up to N and none of a later step.
C19_KilledUpgradeResumable ==
    (pc = "idle" /\ outcome = "killed" /\ Clean(pre)) => Clean(disk)

\* C20: a store whose recorded version is above the program's __dbversion__
\* is not connected to; the startup ends with the unsupported-store error
\* and the file is left as it was.
C20_NewerStoreRejected ==
    (pc = "idle" /\ pre.version > DbVersionOf(program) /\ outcome \notin {"none", "killed"})
    => (outcome = "unsupported" /\ disk = pre)

\* C21: a startup on a store that gives no version ends with the
\* unsupported-database error (unless the process is killed first): no
\* upgrade step is applied, the file is left as it was and connectDB does
\* not return a connection for a pass.
C21_NoVersionUnsupported ==
    (pre.version = Unreadable /\ outcome # "none")
    => /\ disk = pre
       /\ hist = << >>
       /\ pc \in {"idle", "connect"}
       /\ outcome \in {"running", "unsupported", "killed"}
       /\ tx = FALSE /\ db = disk

\* C21 witness: the startup has ended with the unsupported-database error.
C21_Witness ==
    /\ pc = "idle" /\ outcome = "unsupported"
    /\ pre.version = Unreadable
    /\ exitAt = "connect"

\* C25: the video rows of a candidate are written only after its channel
\* row has been written in this pass, and every video row written gets the
\* surrogate ID of the channel row whose relpath is the candidate's.
C25_ChannelBeforeVideos ==
    [][/\ (pc = "videos" /\ pc' = "source") =>
             \E c \in DOMAIN db.channels :
                /\ db.channels[c].relpath = CurRelpath
                /\ db.channels[c].active = 1
                /\ db'.channels = db.channels
                /\ \A i \in DOMAIN db'.videos :
                      (i \notin DOMAIN db.videos \/ db'.videos[i] # db.videos[i])
                      => db'.videos[i].channelID = db.channels[c].id
       /\ (pc = "source" /\ pc' # "idle") => db'.videos = db.videos
       /\ (pc = "source" /\ pc' = "videos") =>
             \E c \in DOMAIN db'.channels :
                /\ db'.channels[c].relpath = CurRelpath
                /\ db'.channels[c].active = 1
                /\ db'.channels[c].id = channelID']_vars

\* C25 witness: a candidate's videos have been written, one inserted and
\* one updated, under the ID of the candidate's channel row, which is not
\* the first of the table.
C25_Witness ==
    /\ pc = "source" /\ idx > 1
    /\ log[idx - 1] = "ok"
    /\ channelID = 2
    /\ db.channels[2].relpath = archives[idx - 1]
    /\ \E i \in DOMAIN pre.videos : db.videos[i].channelID = 2 /\ pre.videos[i].channelID = 1
    /\ \E i \in DOMAIN db.videos : i \notin DOMAIN pre.videos /\ db.videos[i].channelID = 2

\* Every channel and video row is inactive.
AllInactive(s) ==
    /\ \A i \in DOMAIN s.channels : s.channels[i].active = 0
    /\ \A i \in DOMAIN s.videos : s.videos[i].active = 0

\* The order of the steps of a run after source discovery and the reset:
\* the candidates one by one in discovery order, each channel write followed
\* by that candidate's video writes, finalize after the last candidate,
\* then the commit, after which the working copy is not written any more.
StepOrder ==
    /\ (pc = "idle" /\ pc' # pc) => pc' = "discover"
    /\ (pc = "source" /\ pc' = "videos") => (idx' = idx /\ idx <= Len(archives))
    /\ (pc = "source" /\ pc' = "source" /\ idx' # idx) =>
          (idx' = idx + 1 /\ idx <= Len(archives) /\ archives' = archives)
    /\ (pc = "videos" /\ pc' # pc)  => pc' \in {"source", "idle", "serving"}
    /\ (pc = "videos" /\ pc' = "source") => (idx' = idx + 1 /\ archives' = archives)
    /\ (pc = "source" /\ pc' \notin {"source", "videos", "idle", "serving"}) =>
          (pc' = "commit" /\ idx > Len(archives)
           /\ db'.channels = db.channels /\ db'.videos = db.videos)
    /\ (pc = "commit" /\ pc' # pc) => pc' \in {"remove", "serving", "idle"}
    /\ (pc \in {"commit", "remove", "backup", "serving"} /\ pc' # "idle") => db' = db

\* C26: in every run the activation reset comes first, then source
\* discovery, then the candidates in discovery order, then finalize, then
\* the commit as the last step.
C26_ResetThenDiscovery ==
    [][/\ StepOrder
       /\ (pc = "discover" /\ pc' # pc) => AllInactive(db)
       /\ (pc = "discover" /\ pc' # pc) => pc' \in {"reset", "source", "idle", "serving"}]_vars

\* C26 as amended: in every run source discovery comes first and leaves the
\* rows as they were, on an empty candidate list the run ends there; then
\* the activation reset, then the candidates in discovery order, then
\* finalize, then the commit as the last step.
C26_DiscoveryThenReset ==
    [][/\ StepOrder
       /\ (pc = "discover" /\ pc' # pc) =>
             /\ db.channels = pre.channels /\ db.videos = pre.videos
             /\ pc' \in {"reset", "idle", "serving"}
             /\ pc' = "reset" => (db' = db /\ archives' # << >>)
       /\ (pc = "reset" /\ pc' # pc) =>
             /\ pc' \in {"source", "idle", "serving"}
             /\ pc' = "source" => (AllInactive(db') /\ idx' = 1 /\ archives' = archives)]_vars

\* C26 witness: a run on a store with active rows has discovered two
\* candidates, reset, gone through both, finalized and committed.
C26_Witness ==
    /\ pc = "serving" /\ committed /\ outcome = "running"
    /\ Len(archives) = 2 /\ Len(log) = 2 /\ idx = 3
    /\ \E i \in DOMAIN pre.channels : pre.channels[i].active = 1
    /\ db.info.lastupdate = runs

\* The reference upsert by natural key of a channel: a row with the relpath
\* is updated in all its fields and set active, otherwise a new active row
\* with a fresh ID is inserted; the ID of the row is returned.
RefUpsertChannel(s, relpath, abspath, name) ==
    LET hits == {i \in DOMAIN s.channels : s.channels[i].relpath = relpath}
        t == IF hits # {}
             THEN [s EXCEPT !.channels =
                     [i \in DOMAIN s.channels |->
                         IF i \in hits
                         THEN ChannelRow(s.channels[i].id, relpath, abspath, name, 1)
                         ELSE s.channels[i]]]
             ELSE [s EXCEPT !.channels =
                     Append(s.channels, ChannelRow(Len(s.channels) + 1, relpath, abspath, name, 1))]
    IN  [store |-> t,
         id |-> t.channels[CHOOSE i \in DOMAIN t.channels : t.channels[i].relpath = relpath].id]

\* The reference upsert of a video, keyed on the external video ID.
RefUpsertVideo(s, chan, abspath, video) ==
    LET row == VideoRow(video.id, chan, video.title, JoinPath(abspath, video.filename), 1)
    IN  IF \E i \in DOMAIN s.videos : s.videos[i].id = video.id
        THEN [s EXCEPT !.videos =
                [i \in DOMAIN s.videos |-> IF s.videos[i].id = video.id THEN row ELSE s.videos[i]]]
        ELSE [s EXCEPT !.videos = Append(s.videos, row)]

\* C27: on every store and every source snapshot the code's write of the
\* channel row and of each video row leaves the rows, and gives the channel
\* ID, that the reference upsert by natural key leaves and gives.
C27_UpsertEquivalence ==
    /\ (pc = "source" /\ idx <= Len(archives)) =>
          LET w == WriteChannel(db, CurRelpath, AbsPath(CurRelpath), CurSource.name)
              ref == RefUpsertChannel(db, CurRelpath, AbsPath(CurRelpath), CurSource.name)
          IN  /\ ~w.error
              /\ w.store = ref.store
              /\ SelectChannelId(w.store, CurRelpath) = ref.id
    /\ pc = "videos" =>
          \A k \in DOMAIN CurSource.videos :
             LET w == WriteVideo(db, channelID, AbsPath(CurRelpath), CurSource.videos[k])
             IN  /\ ~w.error
                 /\ w.store = RefUpsertVideo(db, channelID, AbsPath(CurRelpath),
                                             CurSource.videos[k])

\* C28: when the pass synchronises a candidate whose relpath had no channel
\* row, the candidate has a new row with a fresh surrogate ID, and every
\* video of the candidate that is upserted, those that belonged to another
\* row included, is active and points to the new row; when the pass is
\* committed, the row of a relpath that is no candidate any more is still
\* there, inactive and otherwise as it was.
C28_ChangedRelpath ==
    [][/\ (/\ pc = "videos" /\ pc' = "source" /\ log' = Append(log, "ok")
           /\ \A i \in DOMAIN pre.channels : pre.channels[i].relpath # CurRelpath)
          => \E c \in DOMAIN db'.channels :
                /\ c \notin DOMAIN pre.channels
                /\ db'.channels[c].relpath = CurRelpath
                /\ db'.channels[c].active = 1
                /\ \A i \in DOMAIN pre.channels : pre.channels[i].id # db'.channels[c].id
                /\ \A k \in DOMAIN CurSource.videos :
                      /\ CurSource.videos[k].title # NULL =>
                            \E v \in DOMAIN db'.videos :
                               db'.videos[v].id = CurSource.videos[k].id
                      /\ \A v \in DOMAIN db'.videos :
                            db'.videos[v].id = CurSource.videos[k].id
                            => /\ db'.videos[v].channelID = db'.channels[c].id
                               /\ db'.videos[v].active = 1
                               /\ db'.videos[v].filepath =
                                     JoinPath(AbsPath(CurRelpath), CurSource.videos[k].filename)
       /\ (pc = "commit" /\ committed')
          => \A o \in DOMAIN pre.channels :
                (\A k \in DOMAIN archives : archives[k] # pre.channels[o].relpath)
                => db.channels[o] = [pre.channels[o] EXCEPT !.active = 0]]_vars

\* C28 witness: the source that was synchronised under relpath a is found
\* under relpath b; the committed pass has inserted channel row 2 for b,
\* left row 1 inactive and repointed the video from row 1 to row 2.
C28_Witness ==
    /\ PassCommitted /\ persisted
    /\ archives = << "b" >> /\ log = << "ok" >>
    /\ Len(pre.channels) = 1
    /\ pre.channels[1].relpath = "a" /\ pre.channels[1].active = 1
    /\ pre.videos = << VideoRow("v1", 1, "t1", "/srv/a/v1.mp4", 1) >>
    /\ disk.channels[1] = [pre.channels[1] EXCEPT !.active = 0]
    /\ disk.channels[2].relpath = "b" /\ disk.channels[2].id = 2
    /\ disk.videos = << VideoRow("v1", 2, "t1", "/srv/b/v1.mp4", 1) >>

\* C30: at every instant of a run with the in-memory working copy, and
\* after a kill during its write-back, the file holds the complete store as
\* it was before the run or the complete committed store; it is never
\* missing.
C30_WriteBackCrashSafe ==
    /\ (pc # "idle" /\ args.memory) => (disk = pre \/ (committed /\ disk = db))
    /\ (pc = "idle" /\ outcome = "killed" /\ exitAt \in {"remove", "backup"})
          => (disk = pre \/ (persisted /\ disk.exists))

\* ------------------------------------------------- the reads of a source
\* The per-source loop of reIndex on its own, while the source directories
\* change under it: an archive.db that discovery has seen may be gone when
\* the loop comes to open it.

\* archive.db as sqlite3.connect creates it: an empty file, no tables.
EmptyArchive == [marker |-> TRUE, version |-> Unreadable, name |-> NULL, videos |-> << >>]

\* The store the loop starts on: one recursive registration of DIR, and
\* either nothing or source a synchronised by the pass before.
LoopStores ==
    LET rows == << [relpath |-> ".", recursive |-> TRUE] >>
    IN  {Registered(rows), SyncedOne(rows, "a")}

InitSrc ==
    /\ fs \in {f \in FileSystems : Discovery(f, << [relpath |-> ".", recursive |-> TRUE] >>) # << >>}
    /\ disk \in LoopStores
    /\ pre = disk
    /\ db = [disk EXCEPT !.channels = SetInactive(disk.channels),
                         !.videos = SetInactive(disk.videos)]
    /\ archives = Discovery(fs, disk.archives)
    /\ idx = 1
    /\ pc = "source"
    /\ args = NoArgs
    /\ channelID = 0
    /\ runs = 2
    /\ log = << >>
    /\ committed = FALSE
    /\ persisted = FALSE
    /\ outcome = "running"
    /\ exitAt = "idle"
    /\ prev = NoPass
    /\ program = "archivetube"
    /\ version = 0
    /\ stmt = 0
    /\ tx = FALSE
    /\ hist = << >>
    /\ spc = "none"
    /\ sdb = NoFile
    /\ calc = NoCalc

\* Another process removes the archive.db of a source directory.
MarkerRemoved ==
    /\ pc = "source"
    /\ \E d \in DOMAIN fs :
          /\ fs[d].marker
          /\ fs' = [fs EXCEPT ![d] = NoSource]
    /\ UNCHANGED << migVars, statsVars, disk, db, pc, args, archives, idx, channelID, runs,
                    pre, log, committed, persisted, outcome, exitAt, prev >>

\* reIndex: sqlite3.connect(archivedbPath) on a path where no file is: the
\* file is created, empty; the version read raises, version = 1, continue.
OpenCreates ==
    /\ pc = "source"
    /\ idx <= Len(archives)
    /\ ~HasMarker(fs, CurRelpath)
    /\ fs' = [fs EXCEPT ![CurRelpath] = EmptyArchive]
    /\ NextSource("skipped")
    /\ UNCHANGED << migVars, statsVars, disk, db, args, archives, channelID, runs,
                    pre, committed, persisted, outcome, exitAt, prev >>

NextSrc ==
    \/ MarkerRemoved
    \/ OpenCreates
    \/ SkipSource
    \/ UpsertChannel
    \/ ChannelWriteError
    \/ ChannelIdTypeError
    \/ VideoReadError
    \/ UpsertVideos
    \/ VideoWriteError

SpecSrc == InitSrc /\ [][NextSrc]_vars

\* C23: no step of the per-source loop (open, version check, channel read,
\* video read, write, on success or failure) changes what a source
\* directory holds.
C23_SourcesReadOnly ==
    [][((pc' # pc \/ idx' # idx) /\ pc' # "idle") => fs' = fs]_vars

\* ------------------------------------------- a pass and a statistics run
\* archivetube.py -m has loaded tube.db into its in-memory working copy and
\* runs its pass; atstatistics.py -m is started on the same DIR at any
\* time.  The `stats' field of a store stands for the statistics tables and
\* info.statisticsupdated: the number of the statistics run that wrote them.

MaxStats == 1         \* the statistics data the file can hold at the start

\* atcommon.connectDB on the file: upgradeDB brings it to __dbversion__ 5.
UpgradeFile(s) ==
    [s EXCEPT !.info.dbversion = IF @ < StatsDbVersion THEN StatsDbVersion ELSE @]

\* The files both programs can find: a store a pass has committed, as
\* archivetube.py created it or after a statistics run.
OverlapStores ==
    {[s EXCEPT !.info.dbversion = v, !.stats = n] :
        s \in LoopStores, v \in {DbVersion, StatsDbVersion}, n \in 0..MaxStats}

InitOverlap ==
    /\ disk \in {s \in OverlapStores : s.stats > 0 => s.info.dbversion = StatsDbVersion}
    /\ fs \in {f \in FileSystems : f["a"] \in {SrcOne, SrcGrown}}
    /\ db = disk
    /\ pre = disk
    /\ pc = "discover"
    /\ args = [memory |-> TRUE, folder |-> NoArgs.folder]
    /\ archives = << >>
    /\ idx = 0
    /\ channelID = 0
    /\ runs = 2
    /\ log = << >>
    /\ committed = FALSE
    /\ persisted = FALSE
    /\ outcome = "running"
    /\ exitAt = "idle"
    /\ prev = NoPass
    /\ program = "archivetube"
    /\ version = 0
    /\ stmt = 0
    /\ tx = FALSE
    /\ hist = << >>
    /\ spc = "start"
    /\ sdb = NoFile
    /\ calc = NoCalc

passState == << disk, db, pc, args, fs, archives, idx, channelID, runs,
                pre, log, committed, persisted, outcome, exitAt, prev >>

\* atstatistics main, -m: atc.connectDB(dbPath) upgrades the file,
\* fileDBCon.backup(dbCon) loads it into the working copy.
StatsConnect ==
    /\ spc = "start"
    /\ disk.exists
    /\ disk' = UpgradeFile(disk)
    /\ sdb' = UpgradeFile(disk)
    /\ spc' = "run"
    /\ UNCHANGED << migVars, calc, db, pc, args, fs, archives, idx, channelID, runs,
                    pre, log, committed, persisted, outcome, exitAt, prev >>

\* atstatistics main: sys.exit("ERROR: No database found")
StatsNoDatabase ==
    /\ spc = "start"
    /\ ~disk.exists
    /\ spc' = "nodb"
    /\ UNCHANGED << migVars, passState, sdb, calc >>

\* atstatistics main: run(db, ...) writes the statistics tables and
\* info.statisticsupdated; dbCon.commit()
StatsRun ==
    /\ spc = "run"
    /\ sdb' = [sdb EXCEPT !.stats = @ + 1]
    /\ spc' = "remove"
    /\ UNCHANGED << migVars, passState, calc >>

\* atstatistics main, -m: os.remove(dbPath)
StatsRemove ==
    /\ spc = "remove"
    /\ disk' = NoFile
    /\ spc' = "backup"
    /\ UNCHANGED << migVars, calc, sdb, db, pc, args, fs, archives, idx, channelID, runs,
                    pre, log, committed, persisted, outcome, exitAt, prev >>

\* atstatistics main, -m: dbCon.backup(fileDBCon)
StatsBackup ==
    /\ spc = "backup"
    /\ disk' = sdb
    /\ spc' = "done"
    /\ UNCHANGED << migVars, calc, sdb, db, pc, args, fs, archives, idx, channelID, runs,
                    pre, log, committed, persisted, outcome, exitAt, prev >>

NextOverlap ==
    \/ Discover
    \/ Reset
    \/ UpsertChannel
    \/ UpsertVideos
    \/ Finalize
    \/ Commit
    \/ RemoveFile
    \/ Backup
    \/ StatsConnect
    \/ StatsNoDatabase
    \/ StatsRun
    \/ StatsRemove
    \/ StatsBackup

SpecOverlap == InitOverlap /\ [][NextOverlap]_vars

\* C29: when a synchronization run and a statistics run, both with -m,
\* have overlapped and both have written back, the file holds the pass's
\* committed catalog and the statistics run's data.
C29_NoLostUpdate ==
    (pc = "serving" /\ persisted /\ spc = "done")
    => /\ disk.exists
       /\ Catalog(disk) = Catalog(db)
       /\ disk.stats = sdb.stats

\* C24: no step of a pass changes the statistics data of the file: not a
\* step that finds and leaves a file, and not the write-back once a
\* statistics run has written its data.
C24_PassLeavesStatistics ==
    [][pc' # pc =>
          /\ (disk.exists /\ disk'.exists) => disk'.stats = disk.stats
          /\ (spc = "done" /\ disk'.exists) => disk'.stats = sdb.stats]_vars

\* C22: the recorded version of the file never goes down: it is never
\* below the version the file had when the pass started, nor below the
\* version a statistics program has brought it to.
C22_VersionNeverDecreases ==
    disk.exists =>
        /\ disk.info.dbversion >= pre.info.dbversion
        /\ spc \in {"run", "remove", "backup", "done"} =>
              disk.info.dbversion >= sdb.info.dbversion

\* C31: the registration of -f and the pass are one transaction: while the
\* pass has not committed, and after it has aborted, the registration table
\* of the file is what it was at startup; once the pass has committed and
\* the indexing block of main is left, the file holds the registration
\* table of the committed pass.
C31_RegistrationWithPass ==
    /\ (pc # "idle" /\ ~committed) => disk.archives = pre.archives
    /\ (pc = "idle" /\ outcome # "none" /\ ~committed) => disk.archives = pre.archives
    /\ (pc = "serving" /\ committed) => (disk.exists /\ disk.archives = db.archives)

\* ------------------------------------------ one video ID in two sources
\* The pass over two source directories whose archives hold the same
\* video IDs, from the first candidate to the commit.

\* The archives a source directory holds here: every one has the video v1.
SharingSnapshots == {SrcOne, SrcGrown, SrcNoTitle}

InitShare ==
    /\ fs \in [SourceDirs -> SharingSnapshots]
    /\ disk \in LoopStores
    /\ pre = disk
    /\ db = [disk EXCEPT !.channels = SetInactive(disk.channels),
                         !.videos = SetInactive(disk.videos)]
    /\ archives = Discovery(fs, disk.archives)
    /\ idx = 1
    /\ pc = "source"
    /\ args = NoArgs
    /\ channelID = 0
    /\ runs = 2
    /\ log = << >>
    /\ committed = FALSE
    /\ persisted = FALSE
    /\ outcome = "running"
    /\ exitAt = "idle"
    /\ prev = NoPass
    /\ program = "archivetube"
    /\ version = 0
    /\ stmt = 0
    /\ tx = FALSE
    /\ hist = << >>
    /\ spc = "none"
    /\ sdb = NoFile
    /\ calc = NoCalc

NextShare ==
    \/ SkipSource
    \/ UpsertChannel
    \/ VideoReadError
    \/ UpsertVideos
    \/ VideoWriteError
    \/ Finalize
    \/ Commit

SpecShare == InitShare /\ [][NextShare]_vars

\* The candidates of this pass whose videos were read and put to the
\* add-or-update loop ...
Extracted == {k \in DOMAIN log : log[k] \in {"ok", "vidwrite"}}

\* ... and those of them whose archive holds the video ID.
ExtractedFrom(id) ==
    {k \in Extracted : \E i \in DOMAIN fs[archives[k]].videos : fs[archives[k]].videos[i].id = id}

SourceVideo(k, id) ==
    LET vs == fs[archives[k]].videos
    IN  vs[CHOOSE i \in DOMAIN vs : vs[i].id = id]

VideoIds == {"v1", "v2", "v3"}

C33_CommittedOrAborted ==
    /\ pc = "commit" => Len(log) = Len(archives)
    /\ (pc \in {"serving", "idle"} /\ outcome # "none") =>
          \/ persisted /\ committed /\ disk.exists
          \/ ~persisted /\ disk = pre

\* C34: a startup on a store whose recorded version is the program's
\* __dbversion__ does not enter the upgrade block, commits no step and
\* leaves the file as it was, at every point of the startup and at its end;
\* so a second startup finds the store the first one found.
C34_StartupIdempotent ==
    (outcome # "none" /\ pre.version = DbVersionOf(program))
    => /\ disk = pre
       /\ hist = << >>
       /\ pc \in {"idle", "connect", "final"}
       /\ outcome \in {"running", "connected", "killed"}
       /\ tx = FALSE
       /\ db = disk

\* C34 witness: the second startup in a row has connected to a current
\* store that holds video rows.
C34_Witness ==
    /\ pc = "idle" /\ outcome = "connected"
    /\ runs = 2
    /\ pre.version = DbVersionOf(program)
    /\ pre.videos
    /\ disk = pre

\* ------------------------------------------------ atstatistics: calculate
\* calculate of atstatistics.py on the connection of a statistics run.
\* Here `sdb' holds the tables calculate reads and writes: videos
\* (timestamp, width, height), statsWeekly, statsOverall and
\* info.statisticsupdated; `calc' holds its locals.

StartMidweek == 1108641600   \* __startMidweek__
Week == 604800               \* week
HalfWeek == 302400           \* halfweek
DaySeconds == 86400          \* seconds of a day of datetime.fromtimestamp(..., tz=utc)
YearEndWeek == 828           \* position in range(__startMidweek__, ..., week) of Thursday 2020-12-31

\* The element k of range(__startMidweek__, ..., week).
Midweek(k) == StartMidweek + k * Week

\* datetime.fromtimestamp(t, tz=timezone.utc): days since 1970-01-01, ...
Days(t) == t \div DaySeconds
LeapsBefore(y) == ((y - 1969) \div 4) - ((y - 1901) \div 100) + ((y - 1601) \div 400)
DaysBeforeYear(y) == 365 * (y - 1970) + LeapsBefore(y)

\* ... strftime "%Y": the calendar year, ...
Year(t) == CHOOSE y \in 1970..2100 : DaysBeforeYear(y) <= Days(t) /\ Days(t) < DaysBeforeYear(y + 1)
DayOfYear(t) == Days(t) - DaysBeforeYear(Year(t)) + 1
IsoWeekday(t) == ((Days(t) + 3) % 7) + 1

\* (the ISO year y has 53 weeks when it starts on a Thursday, or on a
\* Wednesday and is a leap year)
WeeksInYear(y) ==
    LET jan1 == ((DaysBeforeYear(y) + 3) % 7) + 1
        leap == DaysBeforeYear(y + 1) - DaysBeforeYear(y) = 366
    IN  IF jan1 = 4 \/ (jan1 = 3 /\ leap) THEN 53 ELSE 52

\* ... strftime "%V": the ISO 8601 week number.
IsoWeek(t) ==
    LET w == (DayOfYear(t) - IsoWeekday(t) + 10) \div 7
    IN  IF w < 1 THEN WeeksInYear(Year(t) - 1)
        ELSE IF w > WeeksInYear(Year(t)) THEN 1
        ELSE w

\* weekid = int(datetime.strftime(dtMidweek, "%Y%V"))
WeekId(midweek) == Year(midweek) * 100 + IsoWeek(midweek)

\* calculate: the resolution class of a video, by the if/elif chain.
Resolution(width, height) ==
    LET larger == IF width > height THEN width ELSE height
        smaller == IF width > height THEN height ELSE width
    IN  IF larger < 1200
        THEN IF larger < 700 /\ smaller < 400 THEN "vLD" ELSE "vSD"
        ELSE IF 1200 <= larger /\ larger < 1900 THEN "vHD"
        ELSE IF 1900 <= larger /\ larger < 3500 THEN "vFullHD"
        ELSE IF 3500 <= larger /\ larger < 6000 THEN "v4k"
        ELSE "v8k"

StatsVideo(id, timestamp, width, height) ==
    [id |-> id, timestamp |-> timestamp, width |-> width, height |-> height]

\* The video rows a catalog here is made of: weeks 52 and 53 of 2020,
\* week 1 of 2021 and the week after, on and off the borders of a week.
StatsVideos ==
    {StatsVideo("s1", Midweek(YearEndWeek - 1) + 100, 640, 360),
     StatsVideo("s2", Midweek(YearEndWeek) + HalfWeek - 1, 1200, 1200),
     StatsVideo("s3", Midweek(YearEndWeek + 1) - HalfWeek, 1080, 1920),
     StatsVideo("s4", Midweek(YearEndWeek) + 100, 7680, 4320),
     StatsVideo("s5", Midweek(YearEndWeek + 2) - HalfWeek + 60, 3840, 2160),
     StatsVideo("s6", Midweek(YearEndWeek - 1) + 200, 854, 480)}

\* int(time.time()): early on the Monday after week 53 of 2020, or a week later.
Nows == {Midweek(YearEndWeek + 1) - HalfWeek + 3600, Midweek(YearEndWeek + 2) - HalfWeek + 3600}

Counts(n, c8k, c4k, cFullHD, cHD, cSD, cLD) ==
    [videos |-> n, v8k |-> c8k, v4k |-> c4k, vFullHD |-> cFullHD, vHD |-> cHD, vSD |-> cSD, vLD |-> cLD]

NoCounts == Counts(0, 0, 0, 0, 0, 0, 0)

\* for video in vids: ... += 1
CountOf(vids) ==
    LET n(c) == Cardinality({v \in vids : Resolution(v.width, v.height) = c})
    IN  Counts(Cardinality(vids), n("v8k"), n("v4k"), n("vFullHD"), n("vHD"), n("vSD"), n("vLD"))

\* totalVideos += videos; ...
AddCounts(a, b) ==
    Counts(a.videos + b.videos, a.v8k + b.v8k, a.v4k + b.v4k, a.vFullHD + b.vFullHD,
           a.vHD + b.vHD, a.vSD + b.vSD, a.vLD + b.vLD)

WeeklyRow(midweek, counts) == [id |-> WeekId(midweek), timestamp |-> midweek, counts |-> counts]

\* The statistics tables before the run: as upgradeDB created them, or as
\* a run left them whose only video, of the week before, is gone since.
StatsTables ==
    LET old == Counts(1, 0, 0, 0, 0, 0, 1)
    IN  {[weekly |-> << >>, overall |-> << >>, statisticsupdated |-> 0],
         [weekly |-> << WeeklyRow(Midweek(YearEndWeek - 2), old) >>,
          overall |-> << [timestamp |-> Midweek(YearEndWeek - 1), counts |-> old] >>,
          statisticsupdated |-> Midweek(YearEndWeek - 1)]}

InitStats ==
    /\ \E vs \in SUBSET StatsVideos, t \in StatsTables, now \in Nows :
          /\ \A v \in vs : v.timestamp <= now
          /\ sdb = [videos |-> vs, weekly |-> t.weekly, overall |-> t.overall,
                    statisticsupdated |-> t.statisticsupdated]
          /\ calc = [now |-> now, oldest |-> 0, midweek |-> StartMidweek,
                     total |-> NoCounts, error |-> "none"]
    /\ spc = "oldest"
    /\ disk = NoFile
    /\ db = NoFile
    /\ pre = NoFile
    /\ pc = "idle"
    /\ args = NoArgs
    /\ fs = EmptyFS
    /\ archives = << >>
    /\ idx = 0
    /\ channelID = 0
    /\ runs = 0
    /\ log = << >>
    /\ committed = FALSE
    /\ persisted = FALSE
    /\ outcome = "none"
    /\ exitAt = "idle"
    /\ prev = NoPass
    /\ program = "atstatistics"
    /\ version = 0
    /\ stmt = 0
    /\ tx = FALSE
    /\ hist = << >>

\* calculate raises: StatisticsError, or an exception nothing in calculate
\* catches.
Raise(error) ==
    /\ spc' = "raised"
    /\ calc' = [calc EXCEPT !.error = error]
    /\ UNCHANGED << migVars, passState, sdb >>

\* calculate: oldest = r.fetchone()["timestamp"]
CalcOldest ==
    /\ spc = "oldest"
    /\ sdb.videos # {}
    /\ calc' = [calc EXCEPT !.oldest =
                  (CHOOSE v \in sdb.videos : \A u \in sdb.videos : v.timestamp <= u.timestamp).timestamp]
    /\ spc' = "clear"
    /\ UNCHANGED << migVars, passState, sdb >>

\* calculate: no video row: fetchone() returns None, None["timestamp"]
\* raises TypeError, which the except clause does not name.
CalcNoVideos ==
    /\ spc = "oldest"
    /\ sdb.videos = {}
    /\ Raise("TypeError")

CalcClearKept ==
    /\ spc = "clear"
    /\ spc' = "loop"
    /\ UNCHANGED << migVars, passState, sdb, calc >>

\* calculate: DELETE FROM statsWeekly
CalcClear ==
    /\ spc = "clear"
    /\ sdb' = [sdb EXCEPT !.weekly = << >>]
    /\ spc' = "loop"
    /\ UNCHANGED << migVars, passState, calc >>

\* calculate: the DELETE raises sqlite3.Error (database is locked); it is
\* outside every try.
CalcClearError ==
    /\ spc = "clear"
    /\ Raise("sqlite3.Error")

\* The first element of the range whose week does not end before oldest.
FirstMidweek(oldest) ==
    IF oldest <= StartMidweek + HalfWeek - 1 THEN StartMidweek
    ELSE Midweek(((oldest - StartMidweek - HalfWeek) \div Week) + 1)

InRange == calc.midweek < calc.now - HalfWeek

\* calculate: if end < oldest: continue, for every week before the oldest
\* video.
CalcSkipWeeks ==
    /\ spc = "loop"
    /\ InRange
    /\ calc.midweek + HalfWeek - 1 < calc.oldest
    /\ calc' = [calc EXCEPT !.midweek = FirstMidweek(calc.oldest)]
    /\ UNCHANGED << migVars, passState, sdb, spc >>

\* INSERT INTO statsWeekly, on sqlite3.Error (id is the primary key)
\* UPDATE statsWeekly ... WHERE id=?
WriteWeekly(rows, row) ==
    IF \E i \in DOMAIN rows : rows[i].id = row.id
    THEN [i \in DOMAIN rows |-> IF rows[i].id = row.id THEN row ELSE rows[i]]
    ELSE Append(rows, row)

\* calculate: one week of the loop: the videos of the week, their classes,
\* the weekly row, the totals.
CalcWeek ==
    /\ spc = "loop"
    /\ InRange
    /\ calc.midweek + HalfWeek - 1 >= calc.oldest
    /\ LET start == calc.midweek - HalfWeek
           end == calc.midweek + HalfWeek - 1
           vids == {v \in sdb.videos : start <= v.timestamp /\ v.timestamp <= end}
       IN  IF vids = {}
           THEN /\ calc' = [calc EXCEPT !.midweek = @ + Week]
                /\ UNCHANGED sdb
           ELSE /\ sdb' = [sdb EXCEPT !.weekly = WriteWeekly(@, WeeklyRow(calc.midweek, CountOf(vids)))]
                /\ calc' = [calc EXCEPT !.midweek = @ + Week,
                                        !.total = AddCounts(@, CountOf(vids))]
    /\ UNCHANGED << migVars, passState, spc >>

\* calculate: totalFraction8k = totalVideos8k/totalVideos with no video in
\* a completed week: ZeroDivisionError.
CalcZeroDivision ==
    /\ spc = "loop"
    /\ ~InRange
    /\ calc.total.videos = 0
    /\ Raise("ZeroDivisionError")

\* calculate: INSERT INTO statsOverall
CalcOverall ==
    /\ spc = "loop"
    /\ ~InRange
    /\ calc.total.videos # 0
    /\ sdb' = [sdb EXCEPT !.overall = Append(@, [timestamp |-> calc.now, counts |-> calc.total])]
    /\ spc' = "status"
    /\ UNCHANGED << migVars, passState, calc >>

\* calculate: UPDATE info SET statisticsupdated=?
CalcStatus ==
    /\ spc = "status"
    /\ sdb' = [sdb EXCEPT !.statisticsupdated = calc.now]
    /\ spc' = "done"
    /\ UNCHANGED << migVars, passState, calc >>

\* calculate: a SELECT, INSERT or UPDATE inside a try raises sqlite3.Error:
\* raise StatisticsError(...)
CalcStatisticsError ==
    /\ spc \in {"oldest", "loop", "status"}
    /\ Raise("StatisticsError")

NextStats ==
    \/ CalcOldest
    \/ CalcNoVideos
    \/ CalcClear
    \/ CalcClearError
    \/ CalcSkipWeeks
    \/ CalcWeek
    \/ CalcZeroDivision
    \/ CalcOverall
    \/ CalcStatus
    \/ CalcStatisticsError

SpecStats == InitStats /\ [][NextStats]_vars

\* C35: calculate completes or raises StatisticsError: no other error
\* leaves it, whatever the catalog holds.
C35_OnlyStatisticsError ==
    spc = "raised" => calc.error = "StatisticsError"

\* C36: after calculate, each weekly row's class counts add up to its
\* video count, no two weekly rows are of the same week, and the video
\* count of the overall row just written is the sum of the weekly counts.
RECURSIVE SumVideos(_)
SumVideos(rows) ==
    IF rows = << >> THEN 0 ELSE Head(rows).counts.videos + SumVideos(Tail(rows))

C36_StatisticsPartition ==
    spc = "done" =>
        /\ \A i \in DOMAIN sdb.weekly :
              LET c == sdb.weekly[i].counts
              IN  c.v8k + c.v4k + c.vFullHD + c.vHD + c.vSD + c.vLD = c.videos
        /\ \A i, j \in DOMAIN sdb.weekly :
              (sdb.weekly[i].id = sdb.weekly[j].id
                  \/ sdb.weekly[i].timestamp = sdb.weekly[j].timestamp) => i = j
        /\ sdb.overall[Len(sdb.overall)].counts.videos = SumVideos(sdb.weekly)

\* C36 witness: calculate is through on a catalog with videos in week 53 of
\* 2020 and in week 1 of 2021, over tables that held a row of a week that
\* has no video now.
C36_Witness ==
    /\ spc = "done"
    /\ Len(sdb.overall) = 2
    /\ \E i, j \in DOMAIN sdb.weekly :
          /\ sdb.weekly[i].id = 202053 /\ sdb.weekly[i].counts.videos = 2
          /\ sdb.weekly[j].id = 202101
    /\ sdb.overall[2].counts.videos >= 3

\* C37: when the pass comes to its commit, every video row it has written
\* (the active rows) has as file path the absolute directory of a
\* candidate whose videos were read and that holds the video, a separator
\* and the file name that candidate stores for it, and points to that
\* candidate's channel; and every video of a candidate that was
\* synchronised without error has such a row.
C37_MediaPathRewritten ==
    pc = "commit" =>
        /\ \A i \in DOMAIN db.videos :
              db.videos[i].active = 1 =>
                  \E k \in ExtractedFrom(db.videos[i].id) :
                      /\ db.videos[i].filepath =
                            AbsPath(archives[k]) \o "/" \o SourceVideo(k, db.videos[i].id).filename
                      /\ db.videos[i].channelID = SelectChannelId(db, archives[k])
        /\ \A k \in DOMAIN log :
              log[k] = "ok" =>
                  \A n \in DOMAIN fs[archives[k]].videos :
                      fs[archives[k]].videos[n].title # NULL =>
                          \E i \in DOMAIN db.videos :
                              /\ db.videos[i].id = fs[archives[k]].videos[n].id
                              /\ db.videos[i].active = 1

\* C37 witness: sources a and b were synchronised; v2 and v3 have the path
\* under a, v1, which both hold, the path under b.
C37_Witness ==
    /\ pc = "commit"
    /\ archives = << "a", "b" >>
    /\ log = << "ok", "ok" >>
    /\ \E i, j \in DOMAIN db.videos :
          /\ db.videos[i].id = "v2" /\ db.videos[i].filepath = "/srv/a/v2.mp4"
          /\ db.videos[j].id = "v1" /\ db.videos[j].filepath = "/srv/b/v1.mp4"

====
